---- MODULE Spec2Model ----
(***************************************************************************)
(* Model of kuri227/search_allergy (src/index.js): the robots-gated crawl  *)
(* for allergen PDF links.                                                 *)
(*                                                                         *)
(* Strings are sequences of tokens (a token is a run of characters that    *)
(* the program never looks inside, except through Lower and Substr), so    *)
(* that endsWith, startsWith, RegExp.test and URL parsing/serialisation    *)
(* are computed, not assumed.  "https://a.test/docs/allergy.pdf" is        *)
(* <<"https:", "//", "a.test", "/", "docs", "/", "allergy", ".pdf">>.      *)
(***************************************************************************)
EXTENDS Integers, Sequences, FiniteSets, TLC

\* ------------------------------------------------------------------------
\* Bounds: anchors on a page of the scanner specification, calls of
\* getRobotsRulesWithCache in one process, longest URL list given to
\* searchSubpagesParallel, largest maxConcurrent tried, calls of
\* getOfficialSiteUrl on one cache file, calls of getSubpageUrls on one
\* page, calls of savePdfToCache on one cache file, runs of
\* fix_cache.js on one cache file
\* ------------------------------------------------------------------------
MaxAnchors == 2
MaxCalls == 3
MaxBatchUrls == 5
MaxConcurrentMax == 3
MaxLookups == 2
MaxDiscoveries == 2
MaxPdfSaves == 2
MaxFixRuns == 2

\* ------------------------------------------------------------------------
\* Strings
\* ------------------------------------------------------------------------
\* String.prototype.toLowerCase, token by token
Lower(tok) ==
  CASE tok = ".PDF" -> ".pdf"
    [] tok = "Allergy" -> "allergy"
    [] tok = "A.TEST" -> "a.test"
    [] tok = "HTTPS:" -> "https:"
    [] OTHER -> tok

toLowerCase(s) == [i \in DOMAIN s |-> Lower(s[i])]

endsWith(s, suffix) ==
  /\ Len(s) >= Len(suffix)
  /\ SubSeq(s, Len(s) - Len(suffix) + 1, Len(s)) = suffix

startsWith(s, prefix) ==
  /\ Len(s) >= Len(prefix)
  /\ SubSeq(s, 1, Len(prefix)) = prefix

\* The Japanese words of the source are written in romaji:
\*   "arerugi" (U+30A2 U+30EC U+30EB U+30AE U+30FC), "tokuteigenzairyo",
\*   "genryo", "seibun", "fukumareru"; "arerugi-joho" is the link text of
\*   the example scenario (allergy information).
\* The tokens that contain a shorter keyword as a substring:
Substr ==
  { <<"ingredients", "ingredient">>,
    <<"arerugi-joho", "arerugi">>,
    <<"allergens", "allergen">> }

\* new RegExp(keyword, 'i').test(s): case-insensitive substring search
RegExpTest(keyword, s) ==
  \E i \in DOMAIN s :
     \/ Lower(s[i]) = keyword
     \/ <<Lower(s[i]), keyword>> \in Substr

\* first position of tok in s, Len(s) + 1 when absent
IndexOf(s, tok) ==
  IF \E i \in DOMAIN s : s[i] = tok
    THEN CHOOSE i \in DOMAIN s : s[i] = tok /\ \A j \in 1..(i - 1) : s[j] # tok
    ELSE Len(s) + 1

Min(a, b) == IF a <= b THEN a ELSE b

\* ------------------------------------------------------------------------
\* URLs (the WHATWG URL class, for the hrefs the model uses)
\* ------------------------------------------------------------------------
Schemes == {"https:", "http:"}

INVALID == [invalid |-> TRUE]

\* path, query and fragment of the part of an href after the authority
SplitRest(rest) ==
  LET h == IndexOf(rest, "#")
      q == Min(IndexOf(rest, "?"), h)
  IN  [path  |-> SubSeq(rest, 1, q - 1),
       query |-> SubSeq(rest, q, h - 1),
       frag  |-> SubSeq(rest, h, Len(rest))]

\* new URL(s): an absolute URL string; scheme and host are lower-cased and
\* an empty path becomes "/"
ParseAbsolute(s) ==
  IF Len(s) >= 3 /\ Lower(s[1]) \in Schemes /\ s[2] = "//"
     /\ s[3] \notin {"/", "?", "#"}
    THEN LET r == SplitRest(SubSeq(s, 4, Len(s)))
         IN  [invalid |-> FALSE,
              scheme |-> Lower(s[1]), host |-> Lower(s[3]),
              path |-> IF r.path = <<>> THEN <<"/">> ELSE r.path,
              query |-> r.query, frag |-> r.frag]
    ELSE INVALID

\* the directory of a path: everything up to and including the last "/"
RECURSIVE DirOf(_)
DirOf(path) ==
  IF path = <<>> THEN <<"/">>
  ELSE IF path[Len(path)] = "/" THEN path
  ELSE DirOf(SubSeq(path, 1, Len(path) - 1))

\* new URL(href, base): the base is parsed first, and a base that is not
\* an absolute URL makes the constructor throw whatever href is
ParseURL(href, base) ==
  LET b == ParseAbsolute(base)
  IN  IF b.invalid THEN INVALID
      ELSE IF href # <<>> /\ Lower(href[1]) \in Schemes THEN ParseAbsolute(href)
      ELSE IF href = <<>> THEN [b EXCEPT !.frag = <<>>]
      ELSE LET r == SplitRest(href)
           IN  IF href[1] = "/"
                 THEN [b EXCEPT !.path = r.path, !.query = r.query, !.frag = r.frag]
               ELSE IF href[1] = "?"
                 THEN [b EXCEPT !.query = r.query, !.frag = r.frag]
               ELSE IF href[1] = "#"
                 THEN [b EXCEPT !.frag = r.frag]
               ELSE [b EXCEPT !.path = DirOf(b.path) \o r.path,
                              !.query = r.query, !.frag = r.frag]

\* URL.prototype.href: the serialisation
Href(u) == <<u.scheme, "//", u.host>> \o u.path \o u.query \o u.frag

\* URL.prototype.origin
Origin(u) == <<u.scheme, "//", u.host>>

\* ------------------------------------------------------------------------
\* The strings of the modelled site
\* ------------------------------------------------------------------------
Seed == <<"https:", "//", "a.test", "/">>
SeedNoSlash == <<"https:", "//", "a.test">>
AllergenPage == <<"https:", "//", "a.test", "/", "menu", "/", "allergen">>
MenuPage == <<"https:", "//", "a.test", "/", "menu", "/">>
DocsPage == <<"https:", "//", "a.test", "/", "docs", "/">>
NotAUrl == <<"menu">>

\* anchors: href attribute (<<>> when missing or empty) and trimmed text
A(href, text) == [href |-> href, text |-> text]

AllergyPdfAnchor == A(<<"/", "docs", "/", "allergy", ".pdf">>, <<"arerugi-joho">>)
MenuPdfAnchor    == A(<<"/", "docs", "/", "menu", ".pdf">>, <<"menu">>)
UpperPdfAnchor   == A(<<"/", "menu", "/", "list", ".PDF">>, <<"Allergy">>)
NoTextPdfAnchor  == A(<<"allergen", ".pdf">>, <<>>)
CdnPdfAnchor     == A(<<"https:", "//", "cdn.test", "/", "ingredients", ".pdf">>, <<"PDF">>)
QueryPdfAnchor   == A(<<"/", "menu", "/", "?", "file=", "allergy", ".pdf">>, <<"menu">>)
HtmlAnchor       == A(<<"/", "menu", "/">>, <<"allergy">>)
NoHrefAnchor     == A(<<>>, <<"allergy">>)
BadHrefAnchor    == A(<<"https:", "//">>, <<"allergy">>)

Anchors ==
  { AllergyPdfAnchor, MenuPdfAnchor, UpperPdfAnchor, NoTextPdfAnchor,
    CdnPdfAnchor, QueryPdfAnchor, HtmlAnchor, NoHrefAnchor, BadHrefAnchor }

RECURSIVE SeqsUpTo(_, _)
SeqsUpTo(S, n) ==
  IF n = 0 THEN {<<>>}
  ELSE LET shorter == SeqsUpTo(S, n - 1)
       IN  shorter \cup { Append(p, a) : p \in shorter, a \in S }

Pages == SeqsUpTo(Anchors, MaxAnchors)

\* ------------------------------------------------------------------------
\* robots.txt (robots-parser): a policy is the origin of its robots.txt
\* and the Disallow path prefixes that apply to the crawler's user agent
\* ------------------------------------------------------------------------
NullRobots == [isNull |-> TRUE]

robotsParser(robotsUrl, robotsTxt) ==
  [isNull |-> FALSE,
   origin |-> Origin(ParseAbsolute(robotsUrl)),
   disallow |-> robotsTxt]

\* robots.isAllowed(url, ua): "undefined" for a URL that is not valid for
\* this robots.txt (unparsable, or of another origin)
RobotsIsAllowed(robots, url) ==
  LET u == ParseAbsolute(url)
  IN  IF u.invalid \/ Origin(u) # robots.origin THEN "undefined"
      ELSE IF \E rule \in robots.disallow : startsWith(u.path \o u.query, rule)
        THEN "false"
        ELSE "true"

isAllowedByRobots(robots, url) ==
  IF robots.isNull THEN "true" ELSE RobotsIsAllowed(robots, url)

Truthy(v) == v = "true"

RobotsTxtUrl(baseUrl) == ParseURL(<<"/", "robots.txt">>, baseUrl)

\* the robots.txt bodies the site may serve
RobotsTxts ==
  { {}, {<<"/", "docs", "/">>}, {<<"/", "sitemap.xml">>}, {<<"/">>},
    {<<"/", "menu", "/">>} }

Policies ==
  {NullRobots} \cup { robotsParser(Href(RobotsTxtUrl(Seed)), t) : t \in RobotsTxts }

\* ------------------------------------------------------------------------
\* searchPDFsInPage / searchPDFsInPageWithJS: the link classifier
\* ------------------------------------------------------------------------
ALLERGY_KEYWORDS ==
  { "allergy", "arerugi", "allergen", "pictogram", "tokuteigenzairyo",
    "genryo", "seibun", "fukumareru", "ingredient", "ingredients" }

PDF_EXT == <<".pdf">>

isPDF(fullUrl) == endsWith(toLowerCase(fullUrl), PDF_EXT)

isAllergyKeyword(fullUrl, linkText) ==
  \E keyword \in ALLERGY_KEYWORDS :
     RegExpTest(keyword, fullUrl) \/ RegExpTest(keyword, linkText)

TargetAllowedAlways(robots, fullUrl) == TRUE

\* the `robots && isAllowedByRobots(robots, fullUrl)` of the inner if
TargetAllowed(robots, fullUrl) ==
  (~robots.isNull) /\ Truthy(isAllowedByRobots(robots, fullUrl))

LinkHitsKeepsHref(link, url, robots) ==
  IF link.href = <<>> THEN <<>>
  ELSE LET u == ParseURL(link.href, url)
       IN  IF u.invalid THEN <<>>
           ELSE LET fullUrl == Href(u)
                IN  IF isPDF(fullUrl) /\ isAllergyKeyword(fullUrl, link.text)
                       /\ TargetAllowed(robots, fullUrl)
                      THEN << [url |-> link.href,
                               text |-> IF link.text = <<>> THEN <<"PDF">>
                                        ELSE link.text,
                               source |-> url] >>
                      ELSE <<>>

\* the body of the loop over the links: zero or one hit for one link
LinkHits(link, url, robots) ==
  IF link.href = <<>> THEN <<>>
  ELSE LET u == ParseURL(link.href, url)
       IN  IF u.invalid THEN <<>>
           ELSE LET fullUrl == Href(u)
                IN  IF isPDF(fullUrl) /\ isAllergyKeyword(fullUrl, link.text)
                       /\ TargetAllowed(robots, fullUrl)
                      THEN << [url |-> fullUrl,
                               text |-> IF link.text = <<>> THEN <<"PDF">>
                                        ELSE link.text,
                               source |-> url] >>
                      ELSE <<>>

RECURSIVE pagePdfLinks(_, _, _)
pagePdfLinks(links, url, robots) ==
  IF links = <<>> THEN <<>>
  ELSE LinkHits(Head(links), url, robots) \o pagePdfLinks(Tail(links), url, robots)

\* the guard at the top of both scanners and of getSubpageUrls
SkippedByRobots(robots, url) ==
  (~robots.isNull) /\ ~Truthy(isAllowedByRobots(robots, url))

\* fetch(url) rejects without a request for a string that is not a URL
FetchThrows(url) == ParseAbsolute(url).invalid

ResponseKinds == {"ok", "http_error", "network_error"}

\* the try block of searchPDFsInPage once the fetch has settled; the
\* response status is not looked at
StaticResult(url, robots, kind, body) ==
  IF kind = "network_error" THEN <<>> ELSE pagePdfLinks(body, url, robots)

\* ------------------------------------------------------------------------
\* The URL cache file (url_cache.json)
\* ------------------------------------------------------------------------
ChainNames == {"sukiya", "matsuya"}

\* URL strings, as token sequences like those of the site
ChainSite == <<"https:", "//", "chain.test", "/">>
ChainTop == <<"https:", "//", "chain.example", "/", "top">>
ChainAllergyPdf == <<"https:", "//", "chain.test", "/", "allergy", ".pdf">>
ChainMenuPdf == <<"https:", "//", "chain.test", "/", "menu", ".pdf">>

Links == {ChainSite, ChainTop}

\* JavaScript values of a cache entry and of a return value: a missing
\* property, null, a URL string, or a record whose official_site is a URL
\* or is missing (site = <<>>)
\* pdf_links is the list of the record, <<>> when the property is missing
Absent == [kind |-> "absent", site |-> <<>>, pdf_links |-> <<>>]
Null == [kind |-> "null", site |-> <<>>, pdf_links |-> <<>>]
Str(u) == [kind |-> "string", site |-> u, pdf_links |-> <<>>]
Obj(u) == [kind |-> "object", site |-> u, pdf_links |-> <<>>]

\* the entry savePdfToCache makes of a search item and the site it was
\* found for
PdfEntry(pdfItem, source) ==
  [url |-> pdfItem.link, text |-> pdfItem.title, source |-> source]

PdfItems ==
  { [link |-> ChainAllergyPdf, title |-> "allergy"],
    [link |-> ChainAllergyPdf, title |-> "allergen list"],
    [link |-> ChainMenuPdf, title |-> "allergy"] }

\* the official site main hands to savePdfToCache
PdfSources == {ChainSite}

\* a record with an official site and one saved PDF
ObjWithPdf(u) ==
  [kind |-> "object", site |-> u,
   pdf_links |-> <<[url |-> ChainAllergyPdf, text |-> "allergy",
                    source |-> u]>>]

EntryValues ==
  {Absent, Obj(<<>>)} \cup {Str(u) : u \in Links} \cup {Obj(u) : u \in Links}
    \cup {ObjWithPdf(ChainSite)}

EmptyCache == [c \in ChainNames |-> Absent]

\* the file is missing or is not JSON
NoCacheFile == [readable |-> FALSE, map |-> EmptyCache]

\* if (v): an object and a non-empty string are truthy
JsTruthy(v) == v.kind = "object" \/ (v.kind = "string" /\ v.site # <<>>)

\* v.official_site of a truthy v, <<>> for undefined: a string has no such
\* property
official_site(v) == IF v.kind = "object" THEN v.site ELSE <<>>

\* JSON.parse of the file's text, {} when reading or parsing throws
loadUrlCache(file) == IF file.readable THEN file.map ELSE EmptyCache

\* the file after fs.writeFile(CACHE_FILE, JSON.stringify(cache, null, 2))
saveUrlCache(cache) == [readable |-> TRUE, map |-> cache]

\* ------------------------------------------------------------------------
\* State
\* ------------------------------------------------------------------------
VARIABLES
  web,        \* the site: normalised page URL -> anchors of the page
  fetchLog,   \* every network request issued: [op, url]
  inflight,   \* number of network operations issued and not yet settled
  scKind,     \* the scanner running: "static" or "js"
  scUrl,      \* its url argument
  scRobots,   \* its robots argument
  scPc,       \* its position
  scResp,     \* how the fetch of searchPDFsInPage settled, "none" before
  scRender,   \* how page.goto settled, "none" before
  scBrowser,  \* the puppeteer browser: "none", "open", "closed"
  scLinks,    \* pagePdfLinks of searchPDFsInPageWithJS
  scResult,   \* the returned hit list
  robotsCache,   \* the module-level Map: base URL string -> parsed rules
  robotsFetches, \* the robots.txt requests issued: [fn, url], in order
  rcFn,       \* the getter running: "plain" (getRobotsRules) or "cached"
  rcArg,      \* its baseUrl argument
  rcPc,       \* its position: "idle", "fetch"
  rcResp,     \* how the last call went: "none", "hit", "invalid_url",
              \* "ok", "http_error", "network_error"
  rcRet,      \* the value the last call returned
  rcCalls,    \* number of calls that have returned
  bUrls,      \* searchSubpagesParallel: the subpageUrls argument
  bRobots,    \* its robots argument
  bMax,       \* its maxConcurrent argument
  bI,         \* the loop variable i
  bPc,        \* its position: "idle", "loop", "batch", "delay", "done"
  bWorkers,   \* the promises of the current batch: [st, result] per idx
  bPdf,       \* its pdfLinks
  bBatches,   \* the sizes of the batches started so far
  bStarted,   \* per position of bUrls: calls of searchPDFsInPage made
  bOutcome,   \* per position of bUrls: how its scan ended, "none" before
  bFinished,  \* the positions of the latest batch in the order their scans
              \* returned
  bDelays,    \* inter-batch delays that have elapsed
  scanLog,    \* the URLs handed to a scanner, in order of dispatch
  oPc,        \* findAllergyPDFs: its position
  siteUrl,    \* its argument
  robots,     \* its const robots
  pdfLinks,   \* its pdfLinks
  visitedUrls, \* its visitedUrls
  sitemapUrls, \* what getSitemapUrls returned
  oList,      \* searchSitemapUrlsForPdfs: the sitemapUrls argument
  oIdx,       \* the position of its for-of loop in oList
  oAcc,       \* its pdfLinks
  oCaught,    \* the catch block of findAllergyPDFs has run
  mainPagePdfs, \* its const mainPagePdfs, <<>> before the seed scan returns
  sitemapResp, \* how getSitemapUrls went: "none", "invalid_url", "ok",
              \* "http_error", "network_error", "parse_error"
  cacheFile,  \* url_cache.json: [readable, map]
  gVer,       \* the getOfficialSiteUrl running: "index" (src/index.js) or
              \* "part" (src/unnamed/part_000)
  gChain,     \* its chainName argument
  gPc,        \* its position: "idle", "load", "search", "save", "done", "thrown"
  gCache,     \* its const cache
  gFound,     \* how the search settled, "none" before
  gRet,       \* the value it returned
  gFile0,     \* the file when the call started
  gReads,     \* reads of the file by the call
  gSearches,  \* searches issued by the call
  gWrites,    \* writes of the file by the call
  gCalls,     \* calls made so far
  svChain,    \* the chainName argument of savePdfToCache
  svEntry,    \* its const newPdfEntry
  svPc,       \* its position: "idle", "load", "save", "done", "thrown"
  svCache,    \* its const cache
  svFile0,    \* the file when the call started
  svCalls,    \* calls made so far
  fxPc,       \* position of fixUrlCache: "idle", "read", "write", "done"
  fxFixed,    \* its const fixedCache
  fxFile0,    \* the file when the run started
  fxRuns,     \* runs of fix_cache.js so far
  gsUrl,      \* the baseUrl argument of getSubpageUrls
  gsRobots,   \* its robots argument
  gsPc,       \* its position: "idle", "fetch", "done"
  gsResps,    \* how each call so far went: "skipped", "threw" or the
              \* kind of the response
  gsRets      \* the list each call so far returned

scanVars == <<scKind, scUrl, scRobots, scPc, scResp, scRender, scBrowser,
              scLinks, scResult>>
netVars == <<web, fetchLog, inflight>>
rcVars == <<robotsCache, robotsFetches, rcFn, rcArg, rcPc, rcResp, rcRet, rcCalls>>
batchVars == <<bUrls, bRobots, bMax, bI, bPc, bWorkers, bPdf, bBatches,
               bStarted, bOutcome, bFinished, bDelays>>
orchVars == <<oPc, siteUrl, robots, pdfLinks, visitedUrls, sitemapUrls,
              oList, oIdx, oAcc, oCaught, mainPagePdfs, sitemapResp>>

lookupVars == <<gVer, gChain, gPc, gCache, gFound, gRet, gFile0,
                gReads, gSearches, gWrites, gCalls>>
savePdfVars == <<svChain, svEntry, svPc, svCache, svFile0, svCalls>>
fixVars == <<fxPc, fxFixed, fxFile0, fxRuns>>
cacheVars == <<cacheFile, lookupVars, savePdfVars, fixVars>>

EmptyMap == [k \in {} |-> NullRobots]

subVars == <<gsUrl, gsRobots, gsPc, gsResps, gsRets>>

\* no getSubpageUrls call of its own has run
SubIdle ==
  /\ gsUrl = Seed /\ gsRobots = NullRobots /\ gsPc = "idle"
  /\ gsResps = <<>> /\ gsRets = <<>>

\* no getOfficialSiteUrl call has run
LookupIdle ==
  /\ gVer = "index" /\ gChain = "sukiya" /\ gPc = "idle" /\ gCache = EmptyCache
  /\ gFound = "none" /\ gRet = Null /\ gFile0 = NoCacheFile
  /\ gReads = 0 /\ gSearches = 0 /\ gWrites = 0 /\ gCalls = 0

\* no savePdfToCache call has run
SavePdfIdle ==
  /\ svChain = "sukiya" /\ svEntry = PdfEntry(CHOOSE i \in PdfItems : TRUE, <<>>)
  /\ svPc = "idle" /\ svCache = EmptyCache /\ svFile0 = NoCacheFile /\ svCalls = 0

\* fix_cache.js has not run
FixIdle ==
  fxPc = "idle" /\ fxFixed = EmptyCache /\ fxFile0 = NoCacheFile /\ fxRuns = 0

\* the cache file is not touched by the crawl
CacheIdle ==
  cacheFile = NoCacheFile /\ LookupIdle /\ SavePdfIdle /\ FixIdle /\ SubIdle

\* no scanner call has run
ScanIdle ==
  /\ scResp = "none" /\ scRender = "none" /\ scBrowser = "none"
  /\ scLinks = <<>> /\ scResult = <<>>

\* searchSubpagesParallel is not running
BatchIdle ==
  /\ bUrls = <<>> /\ bRobots = NullRobots /\ bMax = 2 /\ bI = 0 /\ bPc = "idle"
  /\ bWorkers = <<>> /\ bPdf = <<>> /\ bBatches = <<>>
  /\ bStarted = <<>> /\ bOutcome = <<>> /\ bFinished = <<>> /\ bDelays = 0

\* findAllergyPDFs is not running
OrchIdle ==
  /\ oPc = "idle" /\ siteUrl = Seed /\ robots = NullRobots /\ pdfLinks = <<>>
  /\ visitedUrls = {} /\ sitemapUrls = <<>> /\ oList = <<>> /\ oIdx = 0
  /\ oAcc = <<>> /\ oCaught = FALSE /\ mainPagePdfs = <<>>
  /\ sitemapResp = "none"

\* no getter call has run
RcIdle ==
  /\ robotsCache = EmptyMap /\ robotsFetches = <<>>
  /\ rcFn = "plain" /\ rcArg = Seed /\ rcPc = "idle" /\ rcResp = "none"
  /\ rcRet = NullRobots /\ rcCalls = 0

\* the key of a page in web: fetch normalises the URL it is given
PageKey(url) ==
  LET u == ParseAbsolute(url) IN IF u.invalid THEN url ELSE Href(u)

\* the HTML a server answers with, whatever the status
Body(url) == IF PageKey(url) \in DOMAIN web THEN web[PageKey(url)] ELSE <<>>

Request(op, url) == [op |-> op, url |-> url]

\* ------------------------------------------------------------------------
\* searchPDFsInPage(url, robots)
\* ------------------------------------------------------------------------
\* entry of searchPDFsInPage: the robots guard, then fetch(url) is issued
StaticEnter ==
  IF SkippedByRobots(scRobots, scUrl) \/ FetchThrows(scUrl)
    THEN /\ scPc' = "done"
         /\ scResult' = <<>>
         /\ UNCHANGED <<fetchLog, inflight>>
    ELSE /\ scPc' = "fetch"
         /\ fetchLog' = fetchLog \cup {Request("page", scUrl)}
         /\ inflight' = inflight + 1
         /\ UNCHANGED scResult

ScanStatic ==
  /\ scPc = "start" /\ scKind = "static"
  /\ StaticEnter
  /\ UNCHANGED <<web, scKind, scUrl, scRobots, scResp, scRender, scBrowser, scLinks>>

\* the fetch settles; the rest of the try block runs without awaiting
ScanFetchSettle ==
  /\ scPc = "fetch"
  /\ \E kind \in ResponseKinds :
       /\ scResp' = kind
       /\ scResult' = StaticResult(scUrl, scRobots, kind, Body(scUrl))
  /\ inflight' = inflight - 1
  /\ scPc' = "done"
  /\ UNCHANGED <<web, fetchLog, scKind, scUrl, scRobots, scRender, scBrowser, scLinks>>

\* ------------------------------------------------------------------------
\* searchPDFsInPageWithJS(url, robots)
\* ------------------------------------------------------------------------
JsEnter ==
  /\ scPc = "start" /\ scKind = "js"
  /\ IF SkippedByRobots(scRobots, scUrl)
       THEN scPc' = "done" /\ scResult' = <<>>
       ELSE scPc' = "launch" /\ UNCHANGED scResult
  /\ UNCHANGED <<netVars, scKind, scUrl, scRobots, scResp, scRender, scBrowser, scLinks>>

JsLaunch ==
  /\ scPc = "launch"
  /\ \/ scBrowser' = "open" /\ scPc' = "newPage"
     \/ scPc' = "catch" /\ UNCHANGED scBrowser
  /\ UNCHANGED <<netVars, scKind, scUrl, scRobots, scResp, scRender, scLinks, scResult>>

JsNewPage ==
  /\ scPc = "newPage"
  /\ scPc' \in {"goto", "catch"}
  /\ UNCHANGED <<netVars, scKind, scUrl, scRobots, scResp, scRender, scBrowser,
                 scLinks, scResult>>

\* page.goto(url): rejects at once for a string that is not a URL
JsGoto ==
  /\ scPc = "goto"
  /\ IF FetchThrows(scUrl)
       THEN scPc' = "catch" /\ UNCHANGED <<fetchLog, inflight>>
       ELSE /\ scPc' = "navigating"
            /\ fetchLog' = fetchLog \cup {Request("render", scUrl)}
            /\ inflight' = inflight + 1
  /\ UNCHANGED <<web, scKind, scUrl, scRobots, scResp, scRender, scBrowser,
                 scLinks, scResult>>

JsGotoSettle ==
  /\ scPc = "navigating"
  /\ \E kind \in ResponseKinds :
       /\ scRender' = kind
       /\ scPc' = IF kind = "network_error" THEN "catch" ELSE "evaluate"
  /\ inflight' = inflight - 1
  /\ UNCHANGED <<web, fetchLog, scKind, scUrl, scRobots, scResp, scBrowser,
                 scLinks, scResult>>

\* page.evaluate collects the links that have an href, then the loop
\* classifies them
JsEvaluate ==
  /\ scPc = "evaluate"
  /\ \/ /\ scLinks' = pagePdfLinks(SelectSeq(Body(scUrl), LAMBDA l : l.href # <<>>),
                                   scUrl, scRobots)
        /\ scPc' = "close"
     \/ scPc' = "catch" /\ UNCHANGED scLinks
  /\ UNCHANGED <<netVars, scKind, scUrl, scRobots, scResp, scRender, scBrowser, scResult>>

\* await browser.close(); return pagePdfLinks
JsClose ==
  /\ scPc = "close"
  /\ \/ scBrowser' = "closed" /\ scPc' = "done" /\ scResult' = scLinks
     \/ scPc' = "catch" /\ UNCHANGED <<scBrowser, scResult>>
  /\ UNCHANGED <<netVars, scKind, scUrl, scRobots, scResp, scRender, scLinks>>

\* the catch block: if (browser) await browser.close(), then the fallback
\* call of searchPDFsInPage; a rejected close leaves the function
JsCatch ==
  /\ scPc = "catch"
  /\ \/ /\ scBrowser' = IF scBrowser = "none" THEN "none" ELSE "closed"
        /\ StaticEnter
     \/ /\ scBrowser # "none"
        /\ scPc' = "thrown"
        /\ UNCHANGED <<scBrowser, scResult, fetchLog, inflight>>
  /\ UNCHANGED <<web, scKind, scUrl, scRobots, scResp, scRender, scLinks>>

ScanStep ==
  \/ ScanStatic \/ ScanFetchSettle
  \/ JsEnter \/ JsLaunch \/ JsNewPage \/ JsGoto \/ JsGotoSettle
  \/ JsEvaluate \/ JsClose \/ JsCatch

\* ------------------------------------------------------------------------
\* Specification of one scanner call on an arbitrary page
\* ------------------------------------------------------------------------
ScanUrls == {Seed, AllergenPage, NotAUrl}

InitScan ==
  /\ scKind \in {"static", "js"}
  /\ scUrl \in ScanUrls
  /\ scRobots \in Policies
  /\ web \in { [k \in {PageKey(scUrl)} |-> p] : p \in Pages }
  /\ scPc = "start"
  /\ ScanIdle
  /\ fetchLog = {} /\ inflight = 0
  /\ RcIdle
  /\ BatchIdle /\ scanLog = <<>>
  /\ OrchIdle
  /\ CacheIdle

NextScan == ScanStep /\ UNCHANGED <<rcVars, batchVars, scanLog, orchVars, cacheVars, subVars>>

\* ------------------------------------------------------------------------
\* Properties of the scanners
\* ------------------------------------------------------------------------
\* the PDF-extension + keyword rule on a link of the page at url
Qualifies(link, url) ==
  /\ link.href # <<>>
  /\ ~ParseURL(link.href, url).invalid
  /\ isPDF(Href(ParseURL(link.href, url)))
  /\ isAllergyKeyword(Href(ParseURL(link.href, url)), link.text)

Target(link, url) == Href(ParseURL(link.href, url))

ExpectedHit(link, url) ==
  [url |-> Target(link, url),
   text |-> IF link.text = <<>> THEN <<"PDF">> ELSE link.text,
   source |-> url]

RECURSIVE ExpectedHits(_, _)
ExpectedHits(links, url) ==
  IF links = <<>> THEN <<>>
  ELSE (IF Qualifies(Head(links), url) THEN <<ExpectedHit(Head(links), url)>> ELSE <<>>)
       \o ExpectedHits(Tail(links), url)

\* how the request that produced the result settled
Served == IF scResp # "none" THEN scResp ELSE scRender

ScanReturned == scPc = "done"

\* C2: with a null policy a scanner returns a hit for every qualifying
\* anchor of a page that was served (one hit for the example scenario).
C2_NullPolicyYieldsHits ==
  (ScanReturned /\ scRobots.isNull /\ Served = "ok")
    => \A i \in DOMAIN Body(scUrl) :
         Qualifies(Body(scUrl)[i], scUrl)
           => \E j \in DOMAIN scResult : scResult[j] = ExpectedHit(Body(scUrl)[i], scUrl)

\* C3: every hit a scanner returns has a source page and a resolved target
\* URL that the robots policy allows.
C3_HitsAllowedAtSourceAndTarget ==
  \A j \in DOMAIN scResult :
     /\ Truthy(isAllowedByRobots(scRobots, scResult[j].source))
     /\ Truthy(isAllowedByRobots(scRobots, scResult[j].url))
     /\ scResult[j].source = scUrl

\* an allowed page with a qualifying link under a disallowed path and one
\* under an allowed path: only the second is a hit
C3_Witness ==
  /\ ScanReturned /\ Served = "ok" /\ ~scRobots.isNull
  /\ Len(Body(scUrl)) = 2
  /\ Qualifies(Body(scUrl)[1], scUrl)
  /\ RobotsIsAllowed(scRobots, Target(Body(scUrl)[1], scUrl)) = "false"
  /\ Qualifies(Body(scUrl)[2], scUrl)
  /\ scResult = <<ExpectedHit(Body(scUrl)[2], scUrl)>>

\* C12: searchPDFsInPageWithJS never raises an error; when it has ended no
\* browser is left open, and after a failure its result is the result of
\* searchPDFsInPage for the same URL and policy.
C12_JsNeverThrowsNorLeaksBrowser ==
  scKind = "js" =>
    /\ scPc # "thrown"
    /\ scPc = "done" => scBrowser # "open"
    /\ (scPc = "done" /\ scResp # "none")
         => scResult = StaticResult(scUrl, scRobots, scResp, Body(scUrl))

\* the part of C12 that holds: a call that returns leaves no browser open
C12_ReturnedCallLeavesNoBrowser ==
  (scKind = "js" /\ scPc = "done") => scBrowser # "open"

\* the policy allows the page and the target of every link on it
AllowsAll(policy, url) ==
  /\ Truthy(isAllowedByRobots(policy, url))
  /\ \A i \in DOMAIN Body(url) :
        Qualifies(Body(url)[i], url)
          => Truthy(isAllowedByRobots(policy, Target(Body(url)[i], url)))

\* C4: with robots allowing everything searchPDFsInPage returns exactly
\* the hits of the qualifying anchors, in document order, duplicates kept.
C4_ExactlyTheQualifyingAnchors ==
  (ScanReturned /\ scKind = "static" /\ scResp = "ok" /\ AllowsAll(scRobots, scUrl))
    => scResult = ExpectedHits(Body(scUrl), scUrl)

\* C5: searchPDFsInPage returns the empty list when the fetch fails or
\* answers with a non-success status.
C5_FailedFetchYieldsNoHits ==
  (ScanReturned /\ scKind = "static" /\ scResp \in {"network_error", "http_error"})
    => scResult = <<>>

\* the same statement for a policy that was loaded: it fails for the null
\* policy only
C4_HoldsForLoadedPolicy ==
  (~scRobots.isNull) => C4_ExactlyTheQualifyingAnchors

\* the path component of an absolute URL string ends in the PDF extension
PathIsPdf(fullUrl) ==
  /\ ~ParseAbsolute(fullUrl).invalid
  /\ endsWith(toLowerCase(ParseAbsolute(fullUrl).path), PDF_EXT)

\* C15: every hit a scanner returns has an absolute URL whose path
\* component ends in the PDF extension; a URL whose query string or
\* fragment ends in .pdf while its path does not is never a hit.
C15_HitPathEndsInPdf ==
  \A j \in DOMAIN scResult : PathIsPdf(scResult[j].url)

\* the part of C15 that holds: every hit is an absolute URL whose whole
\* serialisation ends in the PDF extension
C15_HitHrefEndsInPdf ==
  \A j \in DOMAIN scResult :
     /\ ~ParseAbsolute(scResult[j].url).invalid
     /\ isPDF(scResult[j].url)

\* the link candidate made of a hit: its url as href, its text as text
AsLink(hit) == [href |-> hit.url, text |-> hit.text]

\* C20: a link candidate with href = hit.url and text = hit.text, for a
\* hit a scanner returned (a hit whose text was defaulted to "PDF"
\* included), satisfies the PDF-extension + keyword rule again and
\* resolves to the same url.
C20_HitsClassifyAgain ==
  \A j \in DOMAIN scResult :
     /\ Qualifies(AsLink(scResult[j]), scResult[j].source)
     /\ Target(AsLink(scResult[j]), scResult[j].source) = scResult[j].url
     /\ scResult[j].text # <<>>

\* a scanner returned a hit for a relative link without text: its text is
\* the default and its url is not the href of the link
C20_Witness ==
  /\ ScanReturned /\ Len(scResult) = 1 /\ Len(Body(scUrl)) = 1
  /\ Body(scUrl)[1].text = <<>>
  /\ scResult[1].text = <<"PDF">>
  /\ scResult[1].url # Body(scUrl)[1].href
  /\ Qualifies(AsLink(scResult[1]), scUrl)

\* ------------------------------------------------------------------------
\* getRobotsRules(baseUrl) and getRobotsRulesWithCache(baseUrl)
\* ------------------------------------------------------------------------
\* Map.prototype.set
MapSet(map, key, value) ==
  [k \in DOMAIN map \cup {key} |-> IF k = key THEN value ELSE map[k]]

\* the robots.txt bodies served in the getter specification
RcTxts == { {}, {<<"/", "docs", "/">>} }

\* the text of the response to the robots.txt request; the body of an
\* error response is an HTML page, which gives no rule
RobotsBody(kind, robotsUrl) ==
  IF kind = "ok" /\ robotsUrl \in DOMAIN web THEN web[robotsUrl] ELSE {}

\* the cache after the catch block has run
CacheAfterFailureStoresNull(cache, baseUrl) == MapSet(cache, baseUrl, NullRobots)

CacheAfterFailure(cache, baseUrl) == cache

\* the cache after the try block has run to its end
CacheAfterSuccess(cache, baseUrl, rules) == MapSet(cache, baseUrl, rules)

RcBaseUrls == {Seed, MenuPage, NotAUrl}

\* a call: the cache lookup, then new URL('/robots.txt', baseUrl) and the
\* fetch; the constructor throwing is caught like a failed fetch
RcCall(fn, baseUrl) ==
  /\ rcPc = "idle" /\ rcCalls < MaxCalls
  /\ rcFn' = fn /\ rcArg' = baseUrl
  /\ IF fn = "cached" /\ baseUrl \in DOMAIN robotsCache
       THEN /\ rcRet' = robotsCache[baseUrl]
            /\ rcResp' = "hit"
            /\ rcCalls' = rcCalls + 1
            /\ UNCHANGED <<rcPc, robotsCache, robotsFetches, fetchLog, inflight>>
       ELSE IF RobotsTxtUrl(baseUrl).invalid
         THEN /\ rcRet' = NullRobots
              /\ rcResp' = "invalid_url"
              /\ rcCalls' = rcCalls + 1
              /\ robotsCache' = IF fn = "cached"
                                  THEN CacheAfterFailure(robotsCache, baseUrl)
                                  ELSE robotsCache
              /\ UNCHANGED <<rcPc, robotsFetches, fetchLog, inflight>>
         ELSE /\ rcPc' = "fetch"
              /\ robotsFetches' =
                   Append(robotsFetches, [fn |-> fn, url |-> Href(RobotsTxtUrl(baseUrl))])
              /\ fetchLog' = fetchLog \cup {Request("robots", Href(RobotsTxtUrl(baseUrl)))}
              /\ inflight' = inflight + 1
              /\ UNCHANGED <<rcRet, rcResp, rcCalls, robotsCache>>
  /\ UNCHANGED web

\* the fetch settles: the text of any response is parsed, whatever its
\* status; a rejected fetch is caught
RcSettle ==
  /\ rcPc = "fetch"
  /\ rcPc' = "idle"
  /\ rcCalls' = rcCalls + 1
  /\ inflight' = inflight - 1
  /\ \E kind \in ResponseKinds :
       /\ rcResp' = kind
       /\ IF kind = "network_error"
            THEN /\ rcRet' = NullRobots
                 /\ robotsCache' = IF rcFn = "cached"
                                     THEN CacheAfterFailure(robotsCache, rcArg)
                                     ELSE robotsCache
            ELSE LET robotsUrl == Href(RobotsTxtUrl(rcArg))
                     rules == robotsParser(robotsUrl, RobotsBody(kind, robotsUrl))
                 IN  /\ rcRet' = rules
                     /\ robotsCache' = IF rcFn = "cached"
                                         THEN CacheAfterSuccess(robotsCache, rcArg, rules)
                                         ELSE robotsCache
  /\ UNCHANGED <<rcFn, rcArg, robotsFetches, web, fetchLog>>

InitRobots ==
  /\ RcIdle
  /\ web \in { (Href(RobotsTxtUrl(Seed)) :> t) : t \in RcTxts }
  /\ fetchLog = {} /\ inflight = 0
  /\ scKind = "static" /\ scUrl = Seed /\ scRobots = NullRobots /\ scPc = "idle"
  /\ ScanIdle
  /\ BatchIdle /\ scanLog = <<>>
  /\ OrchIdle
  /\ CacheIdle

NextRobots ==
  \/ \E fn \in {"plain", "cached"}, baseUrl \in RcBaseUrls :
        RcCall(fn, baseUrl) /\ UNCHANGED <<scanVars, batchVars, scanLog, orchVars, cacheVars, subVars>>
  \/ RcSettle /\ UNCHANGED <<scanVars, batchVars, scanLog, orchVars, cacheVars, subVars>>

\* C6: over any sequence of getRobotsRulesWithCache calls at most one
\* robots.txt fetch is issued per origin (the robots.txt URL of an origin
\* is fetched at most once).
C6_OneRobotsFetchPerOrigin ==
  \A i, j \in DOMAIN robotsFetches :
     (/\ i # j
      /\ robotsFetches[i].fn = "cached"
      /\ robotsFetches[j].fn = "cached")
       => robotsFetches[i].url # robotsFetches[j].url

\* C7: a call of either getter whose robots.txt fetch fails (or whose base
\* URL is invalid) returns null, does not throw, and leaves robotsCache
\* unchanged.
C7_FailureReturnsNullCacheUnchanged ==
  [][ (rcCalls' = rcCalls + 1 /\ rcResp' \in {"network_error", "invalid_url"})
        => (rcRet' = NullRobots /\ rcPc' = "idle" /\ robotsCache' = robotsCache) ]_rcVars

\* a cached-getter call has failed after an earlier one had stored rules
C7_Witness ==
  /\ rcPc = "idle" /\ rcFn = "cached"
  /\ rcResp \in {"network_error", "invalid_url"}
  /\ rcRet = NullRobots
  /\ DOMAIN robotsCache # {}
  /\ rcArg \notin DOMAIN robotsCache

\* ------------------------------------------------------------------------
\* searchSubpagesParallel(subpageUrls, robots, maxConcurrent)
\* ------------------------------------------------------------------------
\* subpageUrls.slice(i, i + maxConcurrent)
BatchSliceOneMore(urls, i, maxConcurrent) ==
  SubSeq(urls, i + 1, Min(i + maxConcurrent + 1, Len(urls)))

BatchSlice(urls, i, maxConcurrent) ==
  SubSeq(urls, i + 1, Min(i + maxConcurrent, Len(urls)))

\* the test before the delay between batches
DelayOnlyAfterHits(i, maxConcurrent, n, results) ==
  i + maxConcurrent < n /\ results # <<>>

DelayBeforeNextBatch(i, maxConcurrent, n, results) == i + maxConcurrent < n

RECURSIVE Flat(_)
Flat(results) ==
  IF results = <<>> THEN <<>> ELSE Head(results).result \o Flat(Tail(results))

\* entry, and the head of the for loop: the next batch is mapped to its
\* promises, each waiting on its timer; or the loop ends and the function
\* returns
BatchLoop ==
  /\ bPc = "loop"
  /\ IF bI < Len(bUrls)
       THEN LET batch == BatchSlice(bUrls, bI, bMax)
            IN  /\ bWorkers' = [idx \in 1..Len(batch) |-> [st |-> "timer", result |-> <<>>]]
                /\ bBatches' = Append(bBatches, Len(batch))
                /\ bFinished' = <<>>
                /\ bPc' = "batch"
       ELSE bPc' = "done" /\ UNCHANGED <<bWorkers, bBatches, bFinished>>
  /\ UNCHANGED <<bUrls, bRobots, bMax, bI, bPdf, bStarted, bOutcome,
                 bDelays, scanLog, netVars>>

\* the timer of the promise at idx fires (timers fire in the order of
\* their delays idx * (delayMs / maxConcurrent)) and searchPDFsInPage is
\* entered
BatchTimer(idx) ==
  /\ bPc = "batch"
  /\ idx \in DOMAIN bWorkers
  /\ bWorkers[idx].st = "timer"
  /\ \A j \in 1..(idx - 1) : bWorkers[j].st # "timer"
  /\ LET pos == bI + idx
         url == bUrls[pos]
     IN  /\ bStarted' = [bStarted EXCEPT ![pos] = @ + 1]
         /\ scanLog' = Append(scanLog, url)
         /\ IF SkippedByRobots(bRobots, url) \/ FetchThrows(url)
              THEN /\ bWorkers' = [bWorkers EXCEPT ![idx].st = "done"]
                   /\ bOutcome' = [bOutcome EXCEPT ![pos] = "skipped"]
                   /\ bFinished' = Append(bFinished, pos)
                   /\ UNCHANGED <<fetchLog, inflight>>
              ELSE /\ bWorkers' = [bWorkers EXCEPT ![idx].st = "fetch"]
                   /\ fetchLog' = fetchLog \cup {Request("page", url)}
                   /\ inflight' = inflight + 1
                   /\ UNCHANGED <<bOutcome, bFinished>>
  /\ UNCHANGED <<bUrls, bRobots, bMax, bI, bPc, bPdf, bBatches, bDelays, web>>

\* the fetch of the promise at idx settles and its searchPDFsInPage returns
BatchSettle(idx) ==
  /\ bPc = "batch"
  /\ idx \in DOMAIN bWorkers
  /\ bWorkers[idx].st = "fetch"
  /\ \E kind \in ResponseKinds :
       /\ bWorkers' = [bWorkers EXCEPT
             ![idx] = [st |-> "done",
                       result |-> StaticResult(bUrls[bI + idx], bRobots, kind,
                                               Body(bUrls[bI + idx]))]]
       /\ bOutcome' = [bOutcome EXCEPT ![bI + idx] = kind]
  /\ bFinished' = Append(bFinished, bI + idx)
  /\ inflight' = inflight - 1
  /\ UNCHANGED <<bUrls, bRobots, bMax, bI, bPc, bPdf, bBatches, bStarted, bDelays,
                 scanLog, web, fetchLog>>

\* the results of the scans at the positions of order, concatenated
RECURSIVE ResultsAt(_, _, _)
ResultsAt(workers, order, i) ==
  IF order = <<>> THEN <<>>
  ELSE workers[Head(order) - i].result \o ResultsAt(workers, Tail(order), i)

BatchJoinInCompletionOrder ==
  /\ bPc = "batch"
  /\ \A idx \in DOMAIN bWorkers : bWorkers[idx].st = "done"
  /\ bPdf' = bPdf \o ResultsAt(bWorkers, bFinished, bI)
  /\ bWorkers' = <<>>
  /\ IF DelayBeforeNextBatch(bI, bMax, Len(bUrls), Flat(bWorkers))
       THEN bPc' = "delay" /\ UNCHANGED bI
       ELSE bPc' = "loop" /\ bI' = bI + bMax
  /\ UNCHANGED <<bUrls, bRobots, bMax, bBatches, bStarted, bOutcome, bFinished,
                 bDelays, scanLog, netVars>>

\* Promise.all resolves: the results are pushed in the order of the batch
BatchJoin ==
  /\ bPc = "batch"
  /\ \A idx \in DOMAIN bWorkers : bWorkers[idx].st = "done"
  /\ bPdf' = bPdf \o Flat(bWorkers)
  /\ bWorkers' = <<>>
  /\ IF DelayBeforeNextBatch(bI, bMax, Len(bUrls), Flat(bWorkers))
       THEN bPc' = "delay" /\ UNCHANGED bI
       ELSE bPc' = "loop" /\ bI' = bI + bMax
  /\ UNCHANGED <<bUrls, bRobots, bMax, bBatches, bStarted, bOutcome, bFinished,
                 bDelays, scanLog, netVars>>

\* the delay between batches elapses
BatchDelay ==
  /\ bPc = "delay"
  /\ bDelays' = bDelays + 1
  /\ bI' = bI + bMax
  /\ bPc' = "loop"
  /\ UNCHANGED <<bUrls, bRobots, bMax, bWorkers, bPdf, bBatches, bStarted, bOutcome,
                 bFinished, scanLog, netVars>>

BatchStep ==
  \/ BatchLoop
  \/ \E idx \in 1..MaxConcurrentMax : BatchTimer(idx)
  \/ \E idx \in 1..MaxConcurrentMax : BatchSettle(idx)
  \/ BatchJoin
  \/ BatchDelay

\* the call: the arguments are bound and the locals initialised
BatchEnter(urls, policy, maxConcurrent) ==
  /\ bUrls' = urls /\ bRobots' = policy /\ bMax' = maxConcurrent
  /\ bI' = 0 /\ bPc' = "loop" /\ bWorkers' = <<>> /\ bPdf' = <<>>
  /\ bBatches' = <<>> /\ bDelays' = 0
  /\ bStarted' = [pos \in 1..Len(urls) |-> 0]
  /\ bOutcome' = [pos \in 1..Len(urls) |-> "none"]
  /\ bFinished' = <<>>

\* the site of the batch and orchestrator specifications
SiteWeb ==
  (Seed :> <<AllergyPdfAnchor, HtmlAnchor,
             A(<<"/", "menu", "/", "allergen">>, <<"allergens">>), HtmlAnchor>>)
  @@ (MenuPage :> <<UpperPdfAnchor>>)
  @@ (AllergenPage :> <<NoTextPdfAnchor, AllergyPdfAnchor>>)
  @@ (DocsPage :> <<MenuPdfAnchor>>)

BatchUrlPool == <<MenuPage, DocsPage, AllergenPage, MenuPage, Seed, NotAUrl, DocsPage>>

BatchPolicies ==
  { robotsParser(Href(RobotsTxtUrl(Seed)), t) : t \in { {}, {<<"/", "docs", "/">>} } }

InitBatch ==
  /\ \E n \in 0..MaxBatchUrls, m \in 1..MaxConcurrentMax, r \in BatchPolicies :
       /\ bUrls = SubSeq(BatchUrlPool, 1, n)
       /\ bMax = m
       /\ bRobots = r
       /\ bStarted = [pos \in 1..n |-> 0]
       /\ bOutcome = [pos \in 1..n |-> "none"]
  /\ bFinished = <<>>
  /\ bI = 0 /\ bPc = "loop" /\ bWorkers = <<>> /\ bPdf = <<>>
  /\ bBatches = <<>> /\ bDelays = 0
  /\ scanLog = <<>>
  /\ web = SiteWeb /\ fetchLog = {} /\ inflight = 0
  /\ scKind = "static" /\ scUrl = Seed /\ scRobots = NullRobots /\ scPc = "idle"
  /\ ScanIdle
  /\ RcIdle
  /\ OrchIdle
  /\ CacheIdle

NextBatch == BatchStep /\ UNCHANGED <<scanVars, rcVars, orchVars, cacheVars, subVars>>

\* ------------------------------------------------------------------------
\* Properties of searchSubpagesParallel
\* ------------------------------------------------------------------------
CeilDiv(n, m) == (n + m - 1) \div m

\* scans entered and not yet returned
ScansInFlight == Cardinality({idx \in DOMAIN bWorkers : bWorkers[idx].st = "fetch"})

\* the batch a position of the URL list belongs to, counted from 1
BatchOf(pos) == ((pos - 1) \div bMax) + 1

\* C8: ceil(n/m) batches, each of size m except possibly the last, every
\* position of the URL list scanned exactly once, never more than m scans
\* in flight.
C8_BatchesOfBoundedSize ==
  /\ ScansInFlight <= bMax
  /\ \A pos \in DOMAIN bStarted : bStarted[pos] <= 1
  /\ \A k \in DOMAIN bBatches :
        bBatches[k] = IF k * bMax <= Len(bUrls) THEN bMax
                      ELSE Len(bUrls) - (k - 1) * bMax
  /\ bPc = "done" =>
       /\ Len(bBatches) = CeilDiv(Len(bUrls), bMax)
       /\ \A pos \in DOMAIN bStarted : bStarted[pos] = 1

\* five URLs with maxConcurrent = 2 were processed as batches 2, 2, 1
C8_Witness ==
  /\ bPc = "done" /\ Len(bUrls) = 5 /\ bMax = 2
  /\ bBatches = <<2, 2, 1>>
  /\ \A pos \in 1..5 : bStarted[pos] = 1

\* C9: a scan of a later batch starts only after every scan of every
\* earlier batch has returned and the delay after each earlier batch has
\* elapsed, whatever the scans of those batches returned.
C9_NextBatchAfterJoinAndDelay ==
  \A p, q \in DOMAIN bStarted :
     (bStarted[p] > 0 /\ BatchOf(q) < BatchOf(p))
       => /\ bOutcome[q] # "none"
          /\ bDelays >= BatchOf(p) - 1

\* the second batch has started after a first batch in which a fetch failed
\* and no hit was found
C9_Witness ==
  /\ Len(bUrls) > bMax
  /\ bStarted[bMax + 1] = 1
  /\ bPdf = <<>>
  /\ \E q \in 1..bMax : bOutcome[q] = "network_error"
  /\ bDelays = 1

\* what the scan of the URL at pos returned, from how that scan ended
ScanResultAt(pos) ==
  IF bOutcome[pos] \in {"ok", "http_error"}
    THEN pagePdfLinks(Body(bUrls[pos]), bUrls[pos], bRobots)
    ELSE <<>>

\* the scan results of positions from..to of the URL list, in list order
RECURSIVE InListOrder(_, _)
InListOrder(from, to) ==
  IF from > to THEN <<>> ELSE ScanResultAt(from) \o InListOrder(from + 1, to)

\* the positions whose batch has been joined
Joined ==
  IF bPc = "batch" THEN bI
  ELSE IF bPc = "delay" THEN Min(bI + bMax, Len(bUrls))
  ELSE Min(bI, Len(bUrls))

\* C21: the list searchSubpagesParallel builds and returns is the
\* concatenation of the per-URL scan results in the order of the input URL
\* list, across batches and within a batch, whatever the order in which
\* the scans of a batch completed.
C21_HitsInInputOrder ==
  /\ bPdf = InListOrder(1, Joined)
  /\ bPc = "done" => Joined = Len(bUrls)

\* the last of several batches had its later scan return before its
\* earlier one, both with hits, and the function returned the earlier
\* URL's hits first
C21_Witness ==
  /\ bPc = "done" /\ Len(bBatches) >= 2
  /\ \E m, n \in DOMAIN bFinished :
       /\ m < n /\ bFinished[m] > bFinished[n]
       /\ ScanResultAt(bFinished[m]) # <<>> /\ ScanResultAt(bFinished[n]) # <<>>
       /\ ScanResultAt(bFinished[m]) # ScanResultAt(bFinished[n])
  /\ bPdf = InListOrder(1, Len(bUrls))

\* ------------------------------------------------------------------------
\* findAllergyPDFs(siteUrl) with getSitemapUrls, searchSitemapUrlsForPdfs
\* and getSubpageUrls
\* ------------------------------------------------------------------------
SubpageConcurrencyUnbounded == MaxBatchUrls

SUBPAGE_CONCURRENCY == 2

OriginPage == <<"https:", "//", "a.test", "/", "origin">>

SitemapXmlUrl(baseUrl) == ParseURL(<<"/", "sitemap.xml">>, baseUrl)

\* String.prototype.includes
Includes(s, word) ==
  \E i \in DOMAIN s : s[i] = word \/ <<s[i], word>> \in Substr

\* the scanner searchSitemapUrlsForPdfs picks for a sitemap URL
ScannerFor(sitemapUrl) ==
  IF Includes(sitemapUrl, "allergen") \/ Includes(sitemapUrl, "origin")
    THEN "js" ELSE "static"

\* urls.filter(url => !visitedUrls.has(url)): the whole list is filtered
\* before any of it is added to visitedUrls
Unvisited(urls, visited) == SelectSeq(urls, LAMBDA url : url \notin visited)

Range(seq) == { seq[i] : i \in DOMAIN seq }

\* the Set of getSubpageUrls, in insertion order
RECURSIVE AddAll(_, _)
AddAll(acc, urls) ==
  IF urls = <<>> THEN acc
  ELSE AddAll(IF Head(urls) \in Range(acc) THEN acc ELSE Append(acc, Head(urls)),
              Tail(urls))

\* the absolute URL of an anchor when getSubpageUrls keeps it
RECURSIVE SameSiteTargets(_, _)
SameSiteTargets(links, baseUrl) ==
  IF links = <<>> THEN <<>>
  ELSE LET link == Head(links)
           u == ParseURL(link.href, baseUrl)
           kept == IF link.href = <<>> \/ u.invalid THEN <<>>
                   ELSE IF startsWith(Href(u), baseUrl) THEN <<Href(u)>>
                   ELSE <<>>
       IN  kept \o SameSiteTargets(Tail(links), baseUrl)

SubpageUrlsKeepsRepeats(body, baseUrl) == SameSiteTargets(body, baseUrl)

SubpageUrls(body, baseUrl) == AddAll(<<>>, SameSiteTargets(body, baseUrl))

\* a scanner is called
ScanEnter(kind, url, policy) ==
  /\ scKind' = kind /\ scUrl' = url /\ scRobots' = policy /\ scPc' = "start"
  /\ scResp' = "none" /\ scRender' = "none" /\ scBrowser' = "none"
  /\ scLinks' = <<>> /\ scResult' = <<>>

\* const robots = await getRobotsRules(siteUrl)
ORobotsCall ==
  /\ oPc = "robots"
  /\ RcCall("plain", siteUrl)
  /\ oPc' = "robotsWait"
  /\ UNCHANGED <<siteUrl, mainPagePdfs, sitemapResp, robots, pdfLinks, visitedUrls, sitemapUrls, oList, oIdx,
                 oAcc, oCaught, scanVars, batchVars, scanLog>>

ORobotsReturn ==
  /\ oPc = "robotsWait" /\ rcPc = "idle"
  /\ robots' = rcRet
  /\ oPc' = "seed"
  /\ UNCHANGED <<siteUrl, mainPagePdfs, sitemapResp, pdfLinks, visitedUrls, sitemapUrls, oList, oIdx, oAcc,
                 oCaught, netVars, scanVars, rcVars, batchVars, scanLog>>

\* const mainPagePdfs = await searchPDFsInPage(siteUrl, robots)
OSeedCall ==
  /\ oPc = "seed"
  /\ ScanEnter("static", siteUrl, robots)
  /\ scanLog' = Append(scanLog, siteUrl)
  /\ oPc' = "seedScan"
  /\ UNCHANGED <<siteUrl, mainPagePdfs, sitemapResp, robots, pdfLinks, visitedUrls, sitemapUrls, oList, oIdx,
                 oAcc, oCaught, netVars, rcVars, batchVars>>

OSeedReturn ==
  /\ oPc = "seedScan" /\ scPc = "done"
  /\ mainPagePdfs' = scResult
  /\ pdfLinks' = pdfLinks \o scResult
  /\ visitedUrls' = visitedUrls \cup {siteUrl}
  /\ oPc' = "sitemap"
  /\ UNCHANGED <<siteUrl, sitemapResp, robots, sitemapUrls, oList, oIdx, oAcc, oCaught,
                 netVars, scanVars, rcVars, batchVars, scanLog>>

\* what findAllergyPDFs does with the list getSitemapUrls returned
AfterSitemap(urls) ==
  LET unvisitedSitemapUrls == Unvisited(urls, visitedUrls)
  IN  /\ sitemapUrls' = urls
      /\ IF Len(urls) > 0
           THEN visitedUrls' = visitedUrls \cup Range(unvisitedSitemapUrls)
           ELSE UNCHANGED visitedUrls
      /\ IF Len(urls) > 0 /\ Len(unvisitedSitemapUrls) > 0
           THEN /\ oList' = unvisitedSitemapUrls
                /\ oIdx' = 1
                /\ oAcc' = <<>>
                /\ oPc' = "sitemapLoop"
           ELSE /\ oPc' = "subpages"
                /\ UNCHANGED <<oList, oIdx, oAcc>>

\* what getSitemapUrls returns once its fetch has settled: [] unless the
\* response is ok and the document parses to a urlset
SitemapResultIgnoresStatus(kind, parses, key) ==
  IF kind # "network_error" /\ parses /\ key \in DOMAIN web THEN web[key] ELSE <<>>

SitemapResult(kind, parses, key) ==
  IF kind = "ok" /\ parses /\ key \in DOMAIN web THEN web[key] ELSE <<>>

\* getSitemapUrls(siteUrl) up to its fetch; robots is not consulted
OSitemapIssue ==
  /\ oPc = "sitemap"
  /\ IF SitemapXmlUrl(siteUrl).invalid
       THEN /\ AfterSitemap(<<>>)
            /\ sitemapResp' = "invalid_url"
            /\ UNCHANGED <<fetchLog, inflight>>
       ELSE /\ fetchLog' = fetchLog \cup {Request("sitemap", Href(SitemapXmlUrl(siteUrl)))}
            /\ inflight' = inflight + 1
            /\ oPc' = "sitemapFetch"
            /\ UNCHANGED <<visitedUrls, sitemapUrls, oList, oIdx, oAcc, sitemapResp>>
  /\ UNCHANGED <<siteUrl, mainPagePdfs, robots, pdfLinks, oCaught, web, scanVars, rcVars,
                 batchVars, scanLog>>

\* the sitemap fetch settles: a response that is not ok, a rejected fetch,
\* a document that does not parse or has no urlset all give []
OSitemapSettle ==
  /\ oPc = "sitemapFetch"
  /\ inflight' = inflight - 1
  /\ \E kind \in ResponseKinds, parses \in BOOLEAN :
       /\ sitemapResp' = IF kind = "ok" /\ ~parses THEN "parse_error" ELSE kind
       /\ AfterSitemap(SitemapResult(kind, parses, Href(SitemapXmlUrl(siteUrl))))
  /\ UNCHANGED <<siteUrl, mainPagePdfs, robots, pdfLinks, oCaught, web, fetchLog, scanVars,
                 rcVars, batchVars, scanLog>>

\* the body of the loop of searchSitemapUrlsForPdfs: the scanner is chosen
\* and called
OSitemapCall ==
  /\ oPc = "sitemapLoop"
  /\ ScanEnter(ScannerFor(oList[oIdx]), oList[oIdx], robots)
  /\ scanLog' = Append(scanLog, oList[oIdx])
  /\ oPc' = "sitemapScan"
  /\ UNCHANGED <<siteUrl, mainPagePdfs, sitemapResp, robots, pdfLinks, visitedUrls, sitemapUrls, oList, oIdx,
                 oAcc, oCaught, netVars, rcVars, batchVars>>

OSitemapReturn ==
  /\ oPc = "sitemapScan" /\ scPc = "done"
  /\ oAcc' = oAcc \o scResult
  /\ oPc' = "sitemapDelay"
  /\ UNCHANGED <<siteUrl, mainPagePdfs, sitemapResp, robots, pdfLinks, visitedUrls, sitemapUrls, oList, oIdx,
                 oCaught, netVars, scanVars, rcVars, batchVars, scanLog>>

\* the scanner threw: the exception leaves searchSitemapUrlsForPdfs and is
\* caught by findAllergyPDFs, which returns its pdfLinks
OSitemapThrown ==
  /\ oPc = "sitemapScan" /\ scPc = "thrown"
  /\ oCaught' = TRUE
  /\ oPc' = "done"
  /\ UNCHANGED <<siteUrl, mainPagePdfs, sitemapResp, robots, pdfLinks, visitedUrls, sitemapUrls, oList, oIdx,
                 oAcc, netVars, scanVars, rcVars, batchVars, scanLog>>

\* the one-second timer after a scan elapses; after the last URL the list
\* is returned and pushed to pdfLinks
OSitemapDelay ==
  /\ oPc = "sitemapDelay"
  /\ IF oIdx < Len(oList)
       THEN oIdx' = oIdx + 1 /\ oPc' = "sitemapLoop" /\ UNCHANGED pdfLinks
       ELSE pdfLinks' = pdfLinks \o oAcc /\ oPc' = "subpages" /\ UNCHANGED oIdx
  /\ UNCHANGED <<siteUrl, mainPagePdfs, sitemapResp, robots, visitedUrls, sitemapUrls, oList, oAcc, oCaught,
                 netVars, scanVars, rcVars, batchVars, scanLog>>

\* what findAllergyPDFs does with the list getSubpageUrls returned
AfterSubpages(subpageUrls) ==
  LET unvisitedUrls == Unvisited(subpageUrls, visitedUrls)
  IN  /\ visitedUrls' = visitedUrls \cup Range(unvisitedUrls)
      /\ IF Len(unvisitedUrls) > 0
           THEN BatchEnter(unvisitedUrls, robots, SUBPAGE_CONCURRENCY) /\ oPc' = "batch"
           ELSE oPc' = "done" /\ UNCHANGED batchVars

\* getSubpageUrls(siteUrl, robots) up to its fetch
OSubpagesIssue ==
  /\ oPc = "subpages"
  /\ IF SkippedByRobots(robots, siteUrl) \/ FetchThrows(siteUrl)
       THEN AfterSubpages(<<>>) /\ UNCHANGED <<fetchLog, inflight>>
       ELSE /\ fetchLog' = fetchLog \cup {Request("subpages", siteUrl)}
            /\ inflight' = inflight + 1
            /\ oPc' = "subpagesFetch"
            /\ UNCHANGED <<visitedUrls, batchVars>>
  /\ UNCHANGED <<siteUrl, mainPagePdfs, sitemapResp, robots, pdfLinks, sitemapUrls, oList, oIdx, oAcc, oCaught,
                 web, scanVars, rcVars, scanLog>>

OSubpagesSettle ==
  /\ oPc = "subpagesFetch"
  /\ inflight' = inflight - 1
  /\ \E kind \in ResponseKinds :
       AfterSubpages(IF kind = "network_error" THEN <<>>
                     ELSE SubpageUrls(Body(siteUrl), siteUrl))
  /\ UNCHANGED <<siteUrl, mainPagePdfs, sitemapResp, robots, pdfLinks, sitemapUrls, oList, oIdx, oAcc, oCaught,
                 web, fetchLog, scanVars, rcVars, scanLog>>

OBatchReturnPrepends ==
  /\ oPc = "batch" /\ bPc = "done"
  /\ pdfLinks' = bPdf \o pdfLinks
  /\ oPc' = "done"
  /\ UNCHANGED <<siteUrl, mainPagePdfs, sitemapResp, robots, visitedUrls, sitemapUrls, oList,
                 oIdx, oAcc, oCaught, netVars, scanVars, rcVars, batchVars, scanLog>>

\* searchSubpagesParallel has returned; return pdfLinks
OBatchReturn ==
  /\ oPc = "batch" /\ bPc = "done"
  /\ pdfLinks' = pdfLinks \o bPdf
  /\ oPc' = "done"
  /\ UNCHANGED <<siteUrl, mainPagePdfs, sitemapResp, robots, visitedUrls, sitemapUrls, oList, oIdx, oAcc,
                 oCaught, netVars, scanVars, rcVars, batchVars, scanLog>>

OrchStep ==
  \/ ORobotsCall \/ ORobotsReturn
  \/ OSeedCall \/ OSeedReturn
  \/ OSitemapIssue \/ OSitemapSettle
  \/ OSitemapCall \/ OSitemapReturn \/ OSitemapThrown \/ OSitemapDelay
  \/ OSubpagesIssue \/ OSubpagesSettle
  \/ OBatchReturn

\* the sitemap documents the site may serve
SitemapDocs ==
  { <<>>, <<MenuPage, AllergenPage>>, <<DocsPage, DocsPage>>, <<Seed, OriginPage>> }

Init ==
  /\ siteUrl \in {Seed, SeedNoSlash}
  /\ \E t \in RobotsTxts, doc \in SitemapDocs :
       web = SiteWeb @@ (Href(RobotsTxtUrl(Seed)) :> t)
                     @@ (Href(SitemapXmlUrl(Seed)) :> doc)
  /\ oPc = "robots" /\ robots = NullRobots /\ pdfLinks = <<>>
  /\ visitedUrls = {} /\ sitemapUrls = <<>> /\ oList = <<>> /\ oIdx = 0
  /\ oAcc = <<>> /\ oCaught = FALSE /\ mainPagePdfs = <<>>
  /\ sitemapResp = "none"
  /\ fetchLog = {} /\ inflight = 0 /\ scanLog = <<>>
  /\ scKind = "static" /\ scUrl = Seed /\ scRobots = NullRobots /\ scPc = "idle"
  /\ ScanIdle
  /\ RcIdle
  /\ BatchIdle
  /\ CacheIdle

Next ==
  \/ OrchStep /\ UNCHANGED <<cacheVars, subVars>>
  \/ RcSettle /\ UNCHANGED <<orchVars, scanVars, batchVars, scanLog, cacheVars, subVars>>
  \/ ScanStep /\ UNCHANGED <<orchVars, rcVars, batchVars, scanLog, cacheVars, subVars>>
  \/ BatchStep /\ UNCHANGED <<orchVars, scanVars, rcVars, cacheVars, subVars>>

\* ------------------------------------------------------------------------
\* Properties of findAllergyPDFs
\* ------------------------------------------------------------------------
\* C1: with a non-null policy no request other than the robots.txt fetch
\* goes to a URL the policy disallows.
C1_NoFetchOfDisallowedUrl ==
  (oPc \notin {"robots", "robotsWait"} /\ ~robots.isNull)
    => \A r \in fetchLog :
         r.op # "robots" => RobotsIsAllowed(robots, r.url) # "false"

\* the statement of C1 for the requests other than the sitemap.xml fetch
C1_HoldsExceptSitemapFetch ==
  (oPc \notin {"robots", "robotsWait"} /\ ~robots.isNull)
    => \A r \in fetchLog :
         r.op \notin {"robots", "sitemap"} => RobotsIsAllowed(robots, r.url) # "false"

\* C10: no URL is handed to a scanner more than once during a run.
C10_NoUrlScannedTwice ==
  \A i, j \in DOMAIN scanLog : i # j => scanLog[i] # scanLog[j]

Contains(seq, x) == \E i \in DOMAIN seq : seq[i] = x

\* C11: when the catch block of findAllergyPDFs has run, the returned list
\* holds every hit of the scans that had completed: the seed scan's and
\* those of the sitemap-URL scans that had returned.
C11_CaughtRunKeepsCompletedHits ==
  (oPc = "done" /\ oCaught)
    => \A i \in DOMAIN oAcc : Contains(pdfLinks, oAcc[i])

\* the part of C11 that the code keeps: a caught run returns, and what it
\* returns is the list of the phases that had been pushed
C11_CaughtRunReturnsPushedHits ==
  (oPc = "done" /\ oCaught)
    => \A j \in DOMAIN pdfLinks : pdfLinks[j].source = siteUrl

\* a scanner call of the sequential phases is running
ScanRunning == scPc \notin {"idle", "done", "thrown"}

\* searchSubpagesParallel is running
BatchRunning == bPc \notin {"idle", "done"}

\* C13: the robots load, the seed scan, the sitemap scans and the sub-page
\* scans run in this order, none starting before the phase before it has
\* finished, and a run that completes normally returns the seed hits, then
\* the sitemap hits, then the sub-page hits.
C13_PhasesInOrderAndConcatenated ==
  /\ rcPc = "fetch" => (scanLog = <<>> /\ oPc = "robotsWait")
  /\ ScanRunning => (oPc \in {"seedScan", "sitemapScan"} /\ ~BatchRunning /\ rcPc = "idle")
  /\ BatchRunning => (oPc = "batch" /\ ~ScanRunning /\ rcPc = "idle")
  /\ scanLog # <<>> =>
       \E k \in 0..Len(oList), b \in 0..Len(bUrls) :
          /\ scanLog = <<siteUrl>> \o SubSeq(oList, 1, k) \o SubSeq(bUrls, 1, b)
          /\ b > 0 => (k = Len(oList) /\ oPc \in {"batch", "done"})
          /\ k > 0 => siteUrl \in visitedUrls
  /\ (oPc = "done" /\ ~oCaught) => pdfLinks = mainPagePdfs \o oAcc \o bPdf

\* a run has completed normally with hits from each of the three phases
C13_Witness ==
  /\ oPc = "done" /\ ~oCaught
  /\ mainPagePdfs # <<>> /\ oAcc # <<>> /\ bPdf # <<>>
  /\ pdfLinks = mainPagePdfs \o oAcc \o bPdf
  /\ Len(scanLog) >= 4

\* C14: after a sitemap.xml answer with a non-success status, or a document
\* that does not parse, getSitemapUrls has returned [], no sitemap URL is
\* scanned, findAllergyPDFs goes on to the sub-page phase and returns
\* normally.
C14_SitemapFailureGoesOnToSubpages ==
  sitemapResp \in {"http_error", "parse_error"}
    => /\ sitemapUrls = <<>> /\ oList = <<>>
       /\ ~oCaught
       /\ oPc \in {"subpages", "subpagesFetch", "batch", "done"}
       /\ oPc \in {"subpagesFetch", "batch", "done"}
            => \/ Request("subpages", siteUrl) \in fetchLog
               \/ SkippedByRobots(robots, siteUrl)
       /\ oPc = "done" => pdfLinks = mainPagePdfs \o bPdf

\* a run whose sitemap.xml was answered 404 has scanned sub-pages in
\* batches and returned their hits
C14_Witness ==
  /\ sitemapResp = "http_error"
  /\ oPc = "done" /\ ~oCaught
  /\ Len(bBatches) >= 2
  /\ bPdf # <<>>
  /\ pdfLinks = mainPagePdfs \o bPdf

\* C16: outside the sub-page phase at most one network operation (page
\* fetch, sitemap fetch or rendered scan) is in flight, so each completes
\* before the next starts; the sub-page phase never has more than 2 in
\* flight.
C16_SequentialExceptSubpageBatches ==
  /\ oPc # "batch" => inflight <= 1
  /\ oPc # "batch" => ~BatchRunning
  /\ oPc = "batch" => (inflight <= 2 /\ inflight = ScansInFlight /\ ~ScanRunning)
  /\ ScanRunning => oPc \in {"seedScan", "sitemapScan"}
  /\ oPc \in {"sitemapFetch", "subpagesFetch", "sitemapDelay"} => ~ScanRunning

\* the sub-page phase has two scans in flight after a sitemap phase that
\* scanned two pages one after the other
C16_Witness ==
  /\ oPc = "batch" /\ inflight = 2
  /\ Len(oList) >= 2
  /\ Len(scanLog) >= 5

\* the sitemap phase is over and no scanner threw
SitemapPhaseOver == oPc \in {"subpages", "subpagesFetch", "batch", "done"} /\ ~oCaught

\* the scans of the sitemap phase, in the order they started
SitemapScans == SubSeq(scanLog, 2, 1 + Len(oList))

\* the sitemap URLs not yet visited when the sitemap was read, each once,
\* in sitemap order
DistinctUnvisited == AddAll(<<>>, Unvisited(sitemapUrls, {siteUrl}))

\* a sitemap scan runs on the entry the loop is at, with the scanner its
\* URL string selects, and the scan of entry k has k - 1 delays before it
SitemapScanChoice ==
  oPc = "sitemapScan"
    => /\ scUrl = oList[oIdx]
       /\ scKind = (IF Includes(scUrl, "allergen") \/ Includes(scUrl, "origin")
                      THEN "js" ELSE "static")
       /\ Len(scanLog) = 1 + oIdx

\* the loop moves to its next entry only when the delay has elapsed
DelayAfterEachScan ==
  [][(oPc \in {"sitemapLoop", "sitemapScan", "sitemapDelay"} /\ oIdx' # oIdx)
       => (oPc = "sitemapDelay" /\ oPc' = "sitemapLoop" /\ oIdx' = oIdx + 1)]_orchVars

\* C18: in the sitemap phase each unvisited sitemap URL is scanned exactly
\* once, in sitemap order, by searchPDFsInPageWithJS if and only if its
\* URL string contains "allergen" or "origin" and by searchPDFsInPage
\* otherwise, with a delay step after each scan before the next starts.
C18_EachSitemapUrlScannedOnce ==
  /\ [](SitemapPhaseOver => SitemapScans = DistinctUnvisited)
  /\ []SitemapScanChoice
  /\ DelayAfterEachScan

\* the part of C18 that holds: every entry of the filtered list is scanned
\* once per occurrence, in order, by the scanner its URL selects, with a
\* delay after each scan
C18_EachListEntryScannedInOrder ==
  /\ [](SitemapPhaseOver =>
          /\ SitemapScans = oList
          /\ sitemapUrls # <<>> => oList = Unvisited(sitemapUrls, {siteUrl}))
  /\ []SitemapScanChoice
  /\ DelayAfterEachScan

\* ------------------------------------------------------------------------
\* getSubpageUrls(baseUrl, robots), called on its own
\* ------------------------------------------------------------------------
\* entry of getSubpageUrls: the robots guard, then fetch(baseUrl) is issued
SubCall ==
  /\ gsPc \in {"idle", "done"}
  /\ Len(gsRets) < MaxDiscoveries
  /\ IF SkippedByRobots(gsRobots, gsUrl)
       THEN /\ gsRets' = Append(gsRets, <<>>)
            /\ gsResps' = Append(gsResps, "skipped")
            /\ gsPc' = "done"
            /\ UNCHANGED <<fetchLog, inflight>>
     ELSE IF FetchThrows(gsUrl)
       THEN /\ gsRets' = Append(gsRets, <<>>)
            /\ gsResps' = Append(gsResps, "threw")
            /\ gsPc' = "done"
            /\ UNCHANGED <<fetchLog, inflight>>
     ELSE /\ fetchLog' = fetchLog \cup {Request("subpages", gsUrl)}
          /\ inflight' = inflight + 1
          /\ gsPc' = "fetch"
          /\ UNCHANGED <<gsRets, gsResps>>
  /\ UNCHANGED <<web, gsUrl, gsRobots>>

\* the fetch settles; the response status is not looked at
SubSettle ==
  /\ gsPc = "fetch"
  /\ inflight' = inflight - 1
  /\ \E kind \in ResponseKinds :
       /\ gsResps' = Append(gsResps, kind)
       /\ gsRets' = Append(gsRets, IF kind = "network_error" THEN <<>>
                                   ELSE SubpageUrls(Body(gsUrl), gsUrl))
  /\ gsPc' = "done"
  /\ UNCHANGED <<web, fetchLog, gsUrl, gsRobots>>

SubBaseUrls == {Seed, SeedNoSlash, AllergenPage, NotAUrl}

InitSub ==
  /\ gsUrl \in SubBaseUrls
  /\ gsRobots \in Policies
  /\ web \in { [k \in {PageKey(gsUrl)} |-> p] : p \in Pages }
  /\ gsPc = "idle" /\ gsResps = <<>> /\ gsRets = <<>>
  /\ fetchLog = {} /\ inflight = 0 /\ scanLog = <<>>
  /\ scKind = "static" /\ scUrl = Seed /\ scRobots = NullRobots /\ scPc = "idle"
  /\ ScanIdle
  /\ RcIdle
  /\ BatchIdle
  /\ OrchIdle
  /\ cacheFile = NoCacheFile /\ LookupIdle /\ SavePdfIdle /\ FixIdle

NextSub ==
  /\ SubCall \/ SubSettle
  /\ UNCHANGED <<scanVars, rcVars, batchVars, scanLog, orchVars, cacheVars>>

\* the anchor at position k of the page resolves to url
ResolvesTo(k, url) ==
  /\ Body(gsUrl)[k].href # <<>>
  /\ ~ParseURL(Body(gsUrl)[k].href, gsUrl).invalid
  /\ Href(ParseURL(Body(gsUrl)[k].href, gsUrl)) = url

\* the position of the first anchor of the page that resolves to url
FirstAnchor(url) ==
  CHOOSE k \in DOMAIN Body(gsUrl) :
    ResolvesTo(k, url) /\ \A h \in 1..(k - 1) : ~ResolvesTo(h, url)

\* the page was served to the call (a fetch fails when it rejects)
SubServed(n) == gsResps[n] \in {"ok", "http_error"}

\* C19: getSubpageUrls returns a list without duplicates, in first-
\* discovery order, whose elements all start with the seed URL string; it
\* returns [] without a fetch when robots disallows the seed and [] when
\* the fetch fails; two calls that are served the same page return the
\* same URL set.
C19_SubpageUrlsDistinctOrderedSameSite ==
  /\ \A n \in DOMAIN gsRets :
       LET ret == gsRets[n]
       IN  /\ \A i, j \in DOMAIN ret : i # j => ret[i] # ret[j]
           /\ \A i \in DOMAIN ret :
                 /\ startsWith(ret[i], gsUrl)
                 /\ ~ParseAbsolute(ret[i]).invalid
                 /\ \E k \in DOMAIN Body(gsUrl) : ResolvesTo(k, ret[i])
           /\ \A i, j \in DOMAIN ret :
                 i < j => FirstAnchor(ret[i]) < FirstAnchor(ret[j])
           /\ SubServed(n) =>
                 \A k \in DOMAIN Body(gsUrl) :
                    LET u == ParseURL(Body(gsUrl)[k].href, gsUrl)
                    IN  (Body(gsUrl)[k].href # <<>> /\ ~u.invalid
                         /\ startsWith(Href(u), gsUrl))
                          => Contains(ret, Href(u))
           /\ gsResps[n] \in {"skipped", "threw", "network_error"} => ret = <<>>
  /\ SkippedByRobots(gsRobots, gsUrl) => fetchLog = {}
  /\ \A m, n \in DOMAIN gsRets :
       (SubServed(m) /\ SubServed(n)) => Range(gsRets[m]) = Range(gsRets[n])

\* two calls were served a page with a same-site link and a link that
\* resolves outside the seed prefix: each returned the one same-site URL
C19_Witness ==
  /\ Len(gsRets) = 2 /\ SubServed(1) /\ SubServed(2)
  /\ Len(Body(gsUrl)) = 2
  /\ Len(gsRets[1]) = 1 /\ gsRets[2] = gsRets[1]
  /\ \E k \in DOMAIN Body(gsUrl) :
       /\ Body(gsUrl)[k].href # <<>>
       /\ ~ParseURL(Body(gsUrl)[k].href, gsUrl).invalid
       /\ ~startsWith(Href(ParseURL(Body(gsUrl)[k].href, gsUrl)), gsUrl)

\* ------------------------------------------------------------------------
\* getOfficialSiteUrl(chainName), in src/index.js and in src/unnamed/part_000
\* ------------------------------------------------------------------------
\* how the search request settles: a result list with a first item, an
\* empty list, a non-success status, a rejected fetch
SearchKinds == {"items", "empty", "http_error", "network_error"}

\* the cached value the function returns without searching, Absent when
\* it goes on to search
CachedValue(ver, cache, chainName) ==
  IF ver = "index"
    THEN IF JsTruthy(cache[chainName]) THEN cache[chainName] ELSE Absent
    ELSE IF JsTruthy(cache[chainName]) /\ official_site(cache[chainName]) # <<>>
           THEN Str(official_site(cache[chainName]))
           ELSE Absent

\* cache[chainName].official_site = link throws, in module code, when
\* cache[chainName] is a string
AssignThrows(ver, cache, chainName) ==
  ver = "part" /\ cache[chainName].kind = "string"

\* the cache object after the assignment that precedes saveUrlCache
CacheWithSite(ver, cache, chainName, link) ==
  IF ver = "index"
    THEN [cache EXCEPT ![chainName] = Str(link)]
    ELSE [cache EXCEPT ![chainName] =
            [kind |-> "object", site |-> link, pdf_links |-> @.pdf_links]]

\* the calls are awaited one after the other; a call that starts takes the
\* place of the one that ended before it
NoCacheCallRunning ==
  gPc \in {"idle", "done", "thrown"} /\ svPc \in {"idle", "done", "thrown"}

LookupCall(ver, chainName) ==
  /\ NoCacheCallRunning
  /\ gCalls < MaxLookups
  /\ gCalls' = gCalls + 1
  /\ gVer' = ver /\ gChain' = chainName /\ gPc' = "load"
  /\ gFile0' = cacheFile /\ gCache' = EmptyCache
  /\ gFound' = "none" /\ gRet' = Null
  /\ gReads' = 0 /\ gSearches' = 0 /\ gWrites' = 0
  /\ svPc' = "idle"
  /\ UNCHANGED <<cacheFile, svChain, svEntry, svCache, svFile0, svCalls>>

\* const cache = await loadUrlCache(), then the test of the cached value
LookupLoad ==
  /\ gPc = "load"
  /\ gCache' = loadUrlCache(cacheFile)
  /\ gReads' = gReads + 1
  /\ IF CachedValue(gVer, gCache', gChain) # Absent
       THEN gPc' = "done" /\ gRet' = CachedValue(gVer, gCache', gChain)
       ELSE gPc' = "search" /\ UNCHANGED gRet
  /\ UNCHANGED <<cacheFile, gVer, gChain, gFound, gFile0, gSearches, gWrites, gCalls>>

\* the search has settled: findOfficialSite returned a link or null,
\* googleSearch returned the items or []
LookupSearchSettle ==
  /\ gPc = "search"
  /\ \E kind \in SearchKinds, link \in Links :
       /\ gFound' = kind
       /\ gSearches' = gSearches + 1
       /\ IF kind # "items"
            THEN gPc' = "done" /\ gRet' = Null /\ UNCHANGED gCache
          ELSE IF AssignThrows(gVer, gCache, gChain)
            THEN gPc' = "thrown" /\ UNCHANGED <<gRet, gCache>>
          ELSE /\ gCache' = CacheWithSite(gVer, gCache, gChain, link)
               /\ gRet' = Str(link)
               /\ gPc' = "save"
  /\ UNCHANGED <<cacheFile, gVer, gChain, gFile0, gReads, gWrites, gCalls>>

\* await saveUrlCache(cache); return the link
LookupSave ==
  /\ gPc = "save"
  /\ cacheFile' = saveUrlCache(gCache)
  /\ gWrites' = gWrites + 1
  /\ gPc' = "done"
  /\ UNCHANGED <<gVer, gChain, gCache, gFound, gRet, gFile0, gReads, gSearches, gCalls>>

\* the files the programs can find: none, an empty object, and entries in
\* the formats the two programs write
CacheFiles ==
  {NoCacheFile} \cup {saveUrlCache(m) : m \in [ChainNames -> EntryValues]}

\* ------------------------------------------------------------------------
\* savePdfToCache(chainName, pdfItem, source), in src/unnamed/part_000
\* ------------------------------------------------------------------------
PdfLinksAlwaysPush(links, newPdfEntry) == Append(links, newPdfEntry)

\* pdf_links after the call: created, left alone when an entry has the
\* same url, pushed to otherwise
PdfLinksAfter(links, newPdfEntry) ==
  IF links = <<>> THEN <<newPdfEntry>>
  ELSE IF \E i \in DOMAIN links : links[i].url = newPdfEntry.url THEN links
  ELSE Append(links, newPdfEntry)

\* cache[chainName].pdf_links = [...] throws, in module code, when
\* cache[chainName] is a string
PdfAssignThrows(cache, chainName) == cache[chainName].kind = "string"

\* the cache object handed to saveUrlCache
CacheWithPdf(cache, chainName, newPdfEntry) ==
  LET entry == IF JsTruthy(cache[chainName]) THEN cache[chainName] ELSE Obj(<<>>)
  IN  [cache EXCEPT ![chainName] =
         [entry EXCEPT !.pdf_links = PdfLinksAfter(entry.pdf_links, newPdfEntry)]]

SavePdfCall(chainName, pdfItem, source) ==
  /\ NoCacheCallRunning
  /\ svCalls < MaxPdfSaves
  /\ svCalls' = svCalls + 1
  /\ svChain' = chainName /\ svEntry' = PdfEntry(pdfItem, source)
  /\ svPc' = "load" /\ svFile0' = cacheFile /\ svCache' = EmptyCache
  /\ gPc' = "idle"
  /\ UNCHANGED <<cacheFile, gVer, gChain, gCache, gFound, gRet, gFile0,
                 gReads, gSearches, gWrites, gCalls>>

\* const cache = await loadUrlCache(), then the entry is added to the
\* object
SavePdfLoad ==
  /\ svPc = "load"
  /\ IF PdfAssignThrows(loadUrlCache(cacheFile), svChain)
       THEN svPc' = "thrown" /\ svCache' = loadUrlCache(cacheFile)
       ELSE /\ svCache' = CacheWithPdf(loadUrlCache(cacheFile), svChain, svEntry)
            /\ svPc' = "save"
  /\ UNCHANGED <<cacheFile, svChain, svEntry, svFile0, svCalls>>

\* await saveUrlCache(cache)
SavePdfSave ==
  /\ svPc = "save"
  /\ cacheFile' = saveUrlCache(svCache)
  /\ svPc' = "done"
  /\ UNCHANGED <<svChain, svEntry, svCache, svFile0, svCalls>>

InitCache ==
  /\ cacheFile \in CacheFiles
  /\ LookupIdle /\ SavePdfIdle /\ FixIdle
  /\ web = SiteWeb /\ fetchLog = {} /\ inflight = 0 /\ scanLog = <<>>
  /\ scKind = "static" /\ scUrl = Seed /\ scRobots = NullRobots /\ scPc = "idle"
  /\ ScanIdle
  /\ RcIdle
  /\ BatchIdle
  /\ OrchIdle
  /\ SubIdle

NextCache ==
  /\ \/ \E ver \in {"index", "part"}, chainName \in ChainNames :
           LookupCall(ver, chainName)
     \/ (LookupLoad \/ LookupSearchSettle \/ LookupSave) /\ UNCHANGED savePdfVars
     \/ \E chainName \in ChainNames, pdfItem \in PdfItems, source \in PdfSources :
           SavePdfCall(chainName, pdfItem, source)
     \/ (SavePdfLoad \/ SavePdfSave) /\ UNCHANGED lookupVars
  /\ UNCHANGED <<netVars, scanVars, rcVars, batchVars, scanLog, orchVars, subVars,
                 fixVars>>

\* the call has ended
LookupEnded == gPc \in {"done", "thrown"}

\* the file had an official-site URL for the chain when the call started
HadCachedSite(file, chainName) ==
  \/ loadUrlCache(file)[chainName].kind = "string"
  \/ official_site(loadUrlCache(file)[chainName]) # <<>>

\* C17: a call of getOfficialSiteUrl reads the cache once, searches only
\* when the chain has no cached value, writes the file exactly once and
\* only after a successful lookup, leaves the file as it was and returns
\* null when the search fails or finds nothing, and never alters the
\* entry of another chain.
C17_LookupReadsOnceWritesOnSuccess ==
  /\ gPc \notin {"idle", "load"} => gReads = 1
  /\ HadCachedSite(gFile0, gChain) => gSearches = 0
  /\ gWrites <= 1 /\ gSearches <= 1
  /\ LookupEnded => (gWrites = 1 <=> gFound = "items")
  /\ (LookupEnded /\ gFound # "items") => cacheFile = gFile0
  /\ (LookupEnded /\ gFound \in SearchKinds \ {"items"}) => gRet = Null
  /\ gPc # "idle" =>
       \A c \in ChainNames \ {gChain} :
          loadUrlCache(cacheFile)[c] = loadUrlCache(gFile0)[c]

\* the same statement for the calls that do not meet, in part_000, an
\* entry that is a bare URL string
C17_HoldsExceptRecordLookupOfStringEntry ==
  (gVer = "part" /\ loadUrlCache(gFile0)[gChain].kind = "string")
    \/ C17_LookupReadsOnceWritesOnSuccess

\* ------------------------------------------------------------------------
\* fixUrlCache(), in src/fix_cache.js
\* ------------------------------------------------------------------------
fixedValueKeepsPath(v) ==
  IF v.kind = "string" /\ ~ParseAbsolute(v.site).invalid
    THEN Str(<<ParseAbsolute(v.site).scheme, "//", ParseAbsolute(v.site).host>>
             \o ParseAbsolute(v.site).path)
    ELSE v

\* the value an entry is mapped to: protocol + "//" + hostname when
\* new URL(url) succeeds, url itself when it throws; a record is turned
\* into the string "[object Object]" by new URL, which throws
fixedValue(v) ==
  IF v.kind = "string" /\ ~ParseAbsolute(v.site).invalid
    THEN Str(<<ParseAbsolute(v.site).scheme, "//", ParseAbsolute(v.site).host>>)
    ELSE v

\* Object.fromEntries(Object.entries(cache).map(...)): the keys the file
\* has, each with its mapped value
fixedCache(cache) ==
  [c \in ChainNames |-> IF cache[c].kind = "absent" THEN Absent ELSE fixedValue(cache[c])]

\* node fix_cache.js
FixCall ==
  /\ fxPc \in {"idle", "done"}
  /\ fxRuns < MaxFixRuns
  /\ fxRuns' = fxRuns + 1
  /\ fxPc' = "read" /\ fxFile0' = cacheFile /\ fxFixed' = EmptyCache
  /\ UNCHANGED cacheFile

\* JSON.parse(await fs.readFile(...)) and the mapping; a file that cannot
\* be read or parsed ends the run in the catch block
FixRead ==
  /\ fxPc = "read"
  /\ IF cacheFile.readable
       THEN fxFixed' = fixedCache(cacheFile.map) /\ fxPc' = "write"
       ELSE fxPc' = "done" /\ UNCHANGED fxFixed
  /\ UNCHANGED <<cacheFile, fxFile0, fxRuns>>

\* await fs.writeFile('url_cache.json', JSON.stringify(fixedCache, null, 2))
FixWrite ==
  /\ fxPc = "write"
  /\ cacheFile' = saveUrlCache(fxFixed)
  /\ fxPc' = "done"
  /\ UNCHANGED <<fxFixed, fxFile0, fxRuns>>

\* values of the file: URLs with a path, with an upper-case scheme and
\* host, already reduced to protocol and hostname, a string that is not a
\* URL, and records
FixValues ==
  { Absent, Str(ChainSite), Str(ChainTop),
    Str(<<"HTTPS:", "//", "Chain.TEST", "/", "Menu">>),
    Str(<<"https:", "//", "chain.test">>),
    Str(<<"chain.test", "/", "top">>),
    Obj(ChainSite), ObjWithPdf(ChainSite) }

FixFiles ==
  {NoCacheFile} \cup {saveUrlCache(m) : m \in [ChainNames -> FixValues]}

InitFix ==
  /\ cacheFile \in FixFiles
  /\ LookupIdle /\ SavePdfIdle /\ FixIdle
  /\ web = SiteWeb /\ fetchLog = {} /\ inflight = 0 /\ scanLog = <<>>
  /\ scKind = "static" /\ scUrl = Seed /\ scRobots = NullRobots /\ scPc = "idle"
  /\ ScanIdle
  /\ RcIdle
  /\ BatchIdle
  /\ OrchIdle
  /\ SubIdle

NextFix ==
  /\ FixCall \/ FixRead \/ FixWrite
  /\ UNCHANGED <<netVars, scanVars, rcVars, batchVars, scanLog, orchVars, subVars,
                 lookupVars, savePdfVars>>

\* the value is a string that new URL accepts
IsValidUrl(v) == v.kind = "string" /\ ~ParseAbsolute(v.site).invalid

\* protocol and hostname of a valid URL string
ProtocolAndHostname(url) ==
  <<ParseAbsolute(url).scheme, "//", ParseAbsolute(url).host>>

\* C23: a run of fixUrlCache keeps the key set of the cache, replaces each
\* value that is a valid URL by its protocol and hostname, leaves every
\* other value unchanged, and a second run leaves the file as the first
\* run wrote it.
C23_FixNormalisesAndIsIdempotent ==
  /\ fxPc = "done" =>
       \A c \in ChainNames :
          LET v0 == loadUrlCache(fxFile0)[c]
              v1 == loadUrlCache(cacheFile)[c]
          IN  /\ v0.kind = "absent" <=> v1.kind = "absent"
              /\ IsValidUrl(v0) => v1 = Str(ProtocolAndHostname(v0.site))
              /\ ~IsValidUrl(v0) => v1 = v0
  /\ fxPc = "done" => cacheFile.readable = fxFile0.readable
  /\ (fxPc = "done" /\ fxRuns >= 2) => cacheFile = fxFile0

\* a second run has ended on a file whose first run changed a URL with an
\* upper-case host and a path and kept a record and a string that is not
\* a URL
C23_Witness ==
  /\ fxPc = "done" /\ fxRuns = 2 /\ cacheFile.readable
  /\ cacheFile = fxFile0
  /\ \E c \in ChainNames : cacheFile.map[c] = Str(<<"https:", "//", "chain.test">>)
  /\ \E c \in ChainNames : cacheFile.map[c].kind = "object"
                             \/ ~IsValidUrl(cacheFile.map[c])

\* the pdf_links of a chain in a cache file
PdfLinksOf(file, c) == loadUrlCache(file)[c].pdf_links

\* no two entries of the list have the same url
DistinctUrls(links) ==
  \A i, j \in DOMAIN links : i # j => links[i].url # links[j].url

\* C22: after any sequence of savePdfToCache calls no pdf_links list has
\* two entries with the same url; a call never modifies or removes an
\* entry that was present, and leaves the chain's official_site and the
\* entries of the other chains as they were.
C22_PdfLinksDistinctAndOnlyGrow ==
  /\ \A c \in ChainNames : DistinctUrls(PdfLinksOf(cacheFile, c))
  /\ svPc # "idle" =>
       /\ Len(PdfLinksOf(svFile0, svChain)) <= Len(PdfLinksOf(cacheFile, svChain))
       /\ \A i \in DOMAIN PdfLinksOf(svFile0, svChain) :
             PdfLinksOf(cacheFile, svChain)[i] = PdfLinksOf(svFile0, svChain)[i]
       /\ Len(PdfLinksOf(cacheFile, svChain)) <= Len(PdfLinksOf(svFile0, svChain)) + 1
       /\ loadUrlCache(cacheFile)[svChain].site = loadUrlCache(svFile0)[svChain].site
       /\ loadUrlCache(cacheFile)[svChain].kind = "string"
             => cacheFile = svFile0
       /\ \A c \in ChainNames \ {svChain} :
             loadUrlCache(cacheFile)[c] = loadUrlCache(svFile0)[c]
  /\ svPc = "done" =>
       \E i \in DOMAIN PdfLinksOf(cacheFile, svChain) :
          PdfLinksOf(cacheFile, svChain)[i].url = svEntry.url

\* a call for a url the chain already has, with another title, has left
\* the two-entry list and the official site as they were
C22_Witness ==
  /\ svPc = "done" /\ svCalls = 2
  /\ Len(PdfLinksOf(cacheFile, svChain)) = 2
  /\ PdfLinksOf(cacheFile, svChain) = PdfLinksOf(svFile0, svChain)
  /\ \E i \in DOMAIN PdfLinksOf(cacheFile, svChain) :
       /\ PdfLinksOf(cacheFile, svChain)[i].url = svEntry.url
       /\ PdfLinksOf(cacheFile, svChain)[i].text # svEntry.text
  /\ loadUrlCache(cacheFile)[svChain].site # <<>>
  /\ \E c \in ChainNames \ {svChain} : loadUrlCache(cacheFile)[c].kind # "absent"

vars == <<netVars, scanVars, rcVars, batchVars, scanLog, orchVars, cacheVars, subVars>>

SpecScan == InitScan /\ [][NextScan]_vars

SpecRobots == InitRobots /\ [][NextRobots]_vars

SpecBatch == InitBatch /\ [][NextBatch]_vars

SpecSub == InitSub /\ [][NextSub]_vars

SpecFix == InitFix /\ [][NextFix]_vars

SpecCache == InitCache /\ [][NextCache]_vars

Spec == Init /\ [][Next]_vars

====
